---- MODULE Spec2Model ----
(***************************************************************************)
(* github-artifact-sync: the webhook handler post_github_workflow of       *)
(* src/main.rs as a state machine.  A request walks the handler one stage  *)
(* at a time; the filesystem (extracted directories, symlinks) is the      *)
(* state that outlives a request.                                          *)
(*                                                                         *)
(* Strings that the code takes apart (header values, path templates) are   *)
(* sequences of one-character strings.  Option<T> is a sequence of length  *)
(* at most one: <<>> is None, <<x>> is Some(x).                            *)
(***************************************************************************)
EXTENDS Integers, Sequences, FiniteSets, TLC

\* ------------------------------------------------------------------ bounds

\* Webhook deliveries in one run.
MaxDeliveries == 2

\* Slots for request tasks: the requests that can be in the handler at once.
NumSlots == 2

\* ------------------------------------------------------- response statuses

BadRequest == 400
NoContent == 204
InternalServerError == 500

\* ---------------------------------------------------------------- strings

None == <<>>

Some(x) == <<x>>

IsPrefix(p, s) == Len(p) <= Len(s) /\ SubSeq(s, 1, Len(p)) = p

\* str::strip_prefix: the rest of s behind p, or None.
StripPrefix(s, p) ==
  IF IsPrefix(p, s) THEN Some(SubSeq(s, Len(p) + 1, Len(s))) ELSE None

\* str::replace: every non-overlapping occurrence of pat, left to right.
RECURSIVE ReplaceFrom(_, _, _, _)
ReplaceFrom(s, pat, by, i) ==
  IF i > Len(s) THEN <<>>
  ELSE IF i + Len(pat) - 1 <= Len(s) /\ SubSeq(s, i, i + Len(pat) - 1) = pat
       THEN by \o ReplaceFrom(s, pat, by, i + Len(pat))
       ELSE <<s[i]>> \o ReplaceFrom(s, pat, by, i + 1)

Replace(s, pat, by) == ReplaceFrom(s, pat, by, 1)

HexDigits == << "0", "1", "2", "3", "4", "5", "6", "7",
                "8", "9", "a", "b", "c", "d", "e", "f" >>

UpperHexDigits == << "0", "1", "2", "3", "4", "5", "6", "7",
                     "8", "9", "A", "B", "C", "D", "E", "F" >>

IsHexDigit(c) ==
  \E i \in 1..16 : HexDigits[i] = c \/ UpperHexDigits[i] = c

HexVal(c) ==
  (CHOOSE i \in 1..16 : HexDigits[i] = c \/ UpperHexDigits[i] = c) - 1

\* hex::encode of a byte sequence: two lower-case digits per byte.
HexEncode(bytes) ==
  [ i \in 1..(2 * Len(bytes)) |->
      IF i % 2 = 1 THEN HexDigits[(bytes[(i + 1) \div 2] \div 16) + 1]
      ELSE HexDigits[(bytes[i \div 2] % 16) + 1] ]

\* The bytes of an even number of hex digits, one per two digits.
HexBytes(s) ==
  [ i \in 1..(Len(s) \div 2) |-> HexVal(s[2 * i - 1]) * 16 + HexVal(s[2 * i]) ]

\* hex::decode: None on an odd length or a character that is no hex digit.
HexDecode(s) ==
  IF Len(s) % 2 = 0 /\ \A i \in 1..Len(s) : IsHexDigit(s[i])
  THEN Some(HexBytes(s))
  ELSE None

\* HeaderValue::to_str succeeds on visible ASCII only.
NonAscii == "\\xff"

ToStr(value) ==
  IF \E i \in 1..Len(value) : value[i] \in {NonAscii, "\n"} THEN None ELSE Some(value)

\* ------------------------------------------------------------ configuration

\* "{HEAD_SHA}", the placeholder of Config::parse_artifact_value.
Placeholder == << "{", "H", "E", "A", "D", "_", "S", "H", "A", "}" >>

\* Path templates: "/d/{HEAD_SHA}", "/d/o", "/d/l", "/l/{HEAD_SHA}".
OutPerCommit == << "/", "d", "/" >> \o Placeholder

OutFixed == << "/", "d", "/", "o" >>

LinkLatest == << "/", "d", "/", "l" >>

LinkPerCommit == << "/", "l", "/" >> \o Placeholder

GoodToken == << "t", "k" >>

BadToken == << "t", "\n" >>

\* The Config of one process: loaded once by Config::try_load, never changed.
MkConfig(token, output, symlink) ==
  [ secret |-> << 5, 9 >>, token |-> token, branch |-> "main",
    artifact |-> "site", output |-> output, symlink |-> symlink ]

Configs ==
  { MkConfig(GoodToken, OutPerCommit, None),
    MkConfig(GoodToken, OutPerCommit, Some(LinkLatest)),
    MkConfig(GoodToken, OutPerCommit, Some(LinkPerCommit)),
    MkConfig(GoodToken, OutFixed, Some(LinkLatest)),
    MkConfig(GoodToken, OutPerCommit, Some(OutPerCommit)),
    MkConfig(BadToken, OutPerCommit, Some(LinkLatest)) }

\* parse_artifact_value replacing the first placeholder only
\* (str::replacen with a count of 1).
parse_artifact_value_once(value, head_sha) ==
  LET at == { i \in 1..Len(value) : IsPrefix(Placeholder, SubSeq(value, i, Len(value))) }
  IN IF at = { } THEN value
     ELSE LET i == CHOOSE k \in at : \A j \in at : k <= j
          IN SubSeq(value, 1, i - 1) \o head_sha
               \o SubSeq(value, i + Len(Placeholder), Len(value))

\* Config::parse_artifact_value: the template with the placeholder replaced.
\* PathBuf::try_from(String) cannot fail.
parse_artifact_value(value, head_sha) == Replace(value, Placeholder, head_sha)

\* ------------------------------------------------------------- request body

\* The body on the wire, as bytes: << syntax, keys, status, branch, sha >>.
\* syntax 1 is well-formed JSON; keys is the bit mask of the top-level keys
\* present (1 workflow_job, 2 repository, 4 sender).
StatusNames == << "completed", "in_progress" >>

BranchNames == << "main", "dev" >>

ShaNames == << << "a" >>, << "b" >> >>

GoodBodies ==
  { << 1, 7, 1, 1, 1 >>, << 1, 7, 1, 1, 2 >>,
    << 1, 7, 2, 1, 1 >>, << 1, 7, 1, 2, 1 >> }

BadBodies == { << 0, 7, 1, 1, 1 >>, << 1, 3, 1, 1, 1 >> }

Bodies == GoodBodies \cup BadBodies

\* serde_json::from_slice::<GithubWorkflowPayload>: None unless the body is
\* well-formed and carries workflow_job, repository and sender.
from_slice(body) ==
  IF body[1] = 1 /\ body[2] = 7
  THEN Some([ status |-> StatusNames[body[3]],
              head_branch |-> BranchNames[body[4]],
              head_sha |-> ShaNames[body[5]] ])
  ELSE None

\* ------------------------------------------------------------- HMAC-SHA256

\* a XOR b for 4-bit values, row a + 1, column b + 1.
Xor4 ==
  << <<  0,  1,  2,  3,  4,  5,  6,  7,  8,  9, 10, 11, 12, 13, 14, 15 >>,
     <<  1,  0,  3,  2,  5,  4,  7,  6,  9,  8, 11, 10, 13, 12, 15, 14 >>,
     <<  2,  3,  0,  1,  6,  7,  4,  5, 10, 11,  8,  9, 14, 15, 12, 13 >>,
     <<  3,  2,  1,  0,  7,  6,  5,  4, 11, 10,  9,  8, 15, 14, 13, 12 >>,
     <<  4,  5,  6,  7,  0,  1,  2,  3, 12, 13, 14, 15,  8,  9, 10, 11 >>,
     <<  5,  4,  7,  6,  1,  0,  3,  2, 13, 12, 15, 14,  9,  8, 11, 10 >>,
     <<  6,  7,  4,  5,  2,  3,  0,  1, 14, 15, 12, 13, 10, 11,  8,  9 >>,
     <<  7,  6,  5,  4,  3,  2,  1,  0, 15, 14, 13, 12, 11, 10,  9,  8 >>,
     <<  8,  9, 10, 11, 12, 13, 14, 15,  0,  1,  2,  3,  4,  5,  6,  7 >>,
     <<  9,  8, 11, 10, 13, 12, 15, 14,  1,  0,  3,  2,  5,  4,  7,  6 >>,
     << 10, 11,  8,  9, 14, 15, 12, 13,  2,  3,  0,  1,  6,  7,  4,  5 >>,
     << 11, 10,  9,  8, 15, 14, 13, 12,  3,  2,  1,  0,  7,  6,  5,  4 >>,
     << 12, 13, 14, 15,  8,  9, 10, 11,  4,  5,  6,  7,  0,  1,  2,  3 >>,
     << 13, 12, 15, 14,  9,  8, 11, 10,  5,  4,  7,  6,  1,  0,  3,  2 >>,
     << 14, 15, 12, 13, 10, 11,  8,  9,  6,  7,  4,  5,  2,  3,  0,  1 >>,
     << 15, 14, 13, 12, 11, 10,  9,  8,  7,  6,  5,  4,  3,  2,  1,  0 >> >>

XorNibble(a, b) == Xor4[a + 1][b + 1]

\* a XOR b for 16-bit values, nibble by nibble.
Xor16(a, b) ==
    XorNibble(a \div 4096, b \div 4096) * 4096
  + XorNibble((a \div 256) % 16, (b \div 256) % 16) * 256
  + XorNibble((a \div 16) % 16, (b \div 16) % 16) * 16
  + XorNibble(a % 16, b % 16)

\* a AND b: the sum counts the common bits twice and the others once.
And16(a, b) == (a + b - Xor16(a, b)) \div 2

\* A u32 is a pair << high half, low half >> of 16-bit values.
Xor(x, y) == << Xor16(x[1], y[1]), Xor16(x[2], y[2]) >>

And(x, y) == << And16(x[1], y[1]), And16(x[2], y[2]) >>

Not(x) == << 65535 - x[1], 65535 - x[2] >>

\* 2^n, tabulated for 0..16.
Pow2(n) ==
  << 1, 2, 4, 8, 16, 32, 64, 128, 256, 512, 1024, 2048, 4096, 8192, 16384,
     32768, 65536 >>[n + 1]

\* x >> n
Shr(x, n) ==
  IF n >= 16 THEN << 0, x[1] \div Pow2(n - 16) >>
  ELSE << x[1] \div Pow2(n),
          (x[2] \div Pow2(n)) + (x[1] % Pow2(n)) * Pow2(16 - n) >>

\* x.rotate_right(n)
Rotr(x, n) ==
  IF n >= 16
  THEN << (x[2] \div Pow2(n - 16)) + (x[1] % Pow2(n - 16)) * Pow2(32 - n),
          (x[1] \div Pow2(n - 16)) + (x[2] % Pow2(n - 16)) * Pow2(32 - n) >>
  ELSE << (x[1] \div Pow2(n)) + (x[2] % Pow2(n)) * Pow2(16 - n),
          (x[2] \div Pow2(n)) + (x[1] % Pow2(n)) * Pow2(16 - n) >>

\* wrapping_add
Add(x, y) ==
  LET lo == x[2] + y[2]
  IN << (x[1] + y[1] + lo \div 65536) % 65536, lo % 65536 >>

Ch(x, y, z) == Xor(And(x, y), And(Not(x), z))

Maj(x, y, z) == Xor(Xor(And(x, y), And(x, z)), And(y, z))

BigSigma0(x) == Xor(Xor(Rotr(x, 2), Rotr(x, 13)), Rotr(x, 22))

BigSigma1(x) == Xor(Xor(Rotr(x, 6), Rotr(x, 11)), Rotr(x, 25))

SmallSigma0(x) == Xor(Xor(Rotr(x, 7), Rotr(x, 18)), Shr(x, 3))

SmallSigma1(x) == Xor(Xor(Rotr(x, 17), Rotr(x, 19)), Shr(x, 10))

\* The round constants and the initial hash value of SHA-256 (FIPS 180-4).
K256 == <<
    << 17034, 12184 >>, << 28983, 17553 >>, << 46528, 64463 >>, << 59829, 56229 >>,
    << 14678, 49755 >>, << 23025, 4593 >>, << 37439, 33444 >>, << 43804, 24277 >>,
    << 55303, 43672 >>, << 4739, 23297 >>, << 9265, 34238 >>, << 21772, 32195 >>,
    << 29374, 23924 >>, << 32990, 45566 >>, << 39900, 1703 >>, << 49563, 61812 >>,
    << 58523, 27073 >>, << 61374, 18310 >>, << 4033, 40390 >>, << 9228, 41420 >>,
    << 11753, 11375 >>, << 19060, 33962 >>, << 23728, 43484 >>, << 30457, 35034 >>,
    << 38974, 20818 >>, << 43057, 50797 >>, << 45059, 10184 >>, << 48985, 32711 >>,
    << 50912, 3059 >>, << 54695, 37191 >>, << 1738, 25425 >>, << 5161, 10599 >>,
    << 10167, 2693 >>, << 11803, 8504 >>, << 19756, 28156 >>, << 21304, 3347 >>,
    << 25866, 29524 >>, << 30314, 2747 >>, << 33218, 51502 >>, << 37490, 11397 >>,
    << 41663, 59553 >>, << 43034, 26187 >>, << 49739, 35696 >>, << 51052, 20899 >>,
    << 53650, 59417 >>, << 54937, 1572 >>, << 62478, 13701 >>, << 4202, 41072 >>,
    << 6564, 49430 >>, << 7735, 27656 >>, << 10056, 30540 >>, << 13488, 48309 >>,
    << 14620, 3251 >>, << 20184, 43594 >>, << 23452, 51791 >>, << 26670, 28659 >>,
    << 29839, 33518 >>, << 30885, 25455 >>, << 33992, 30740 >>, << 36039, 520 >>,
    << 37054, 65530 >>, << 42064, 27883 >>, << 48889, 41975 >>, << 50801, 30962 >> >>

H256 == <<
    << 27145, 58983 >>, << 47975, 44677 >>, << 15470, 62322 >>, << 42319, 62778 >>,
    << 20750, 21119 >>, << 39685, 26764 >>, << 8067, 55723 >>, << 23520, 52505 >> >>

Word == (0..65535) \X (0..65535)

\* The message schedule of one block: its 16 words and the 48 derived ones.
Schedule(words) ==
  LET W[w \in Seq(Word)] ==
        IF Len(w) = 64 THEN w
        ELSE LET t == Len(w) + 1
             IN W[Append(w, Add(Add(SmallSigma1(w[t - 2]), w[t - 7]),
                                Add(SmallSigma0(w[t - 15]), w[t - 16])))]
  IN W[words]

\* The two temporaries of a round.
T1(s, kt, wt) ==
  Add(Add(Add(s[8], BigSigma1(s[5])), Ch(s[5], s[6], s[7])), Add(kt, wt))

T2(s) == Add(BigSigma0(s[1]), Maj(s[1], s[2], s[3]))

\* The eight working variables shifted, with the temporaries added in.
Working(s, t1, t2) ==
  << Add(t1, t2), s[1], s[2], s[3], Add(s[4], t1), s[5], s[6], s[7] >>

\* One round: the eight working variables after round t.
Round(s, kt, wt) == Working(s, T1(s, kt, wt), T2(s))

\* The working variables after the 64 rounds.
Rounds(h, w) ==
  LET S[r \in (0..64) \X Seq(Word)] ==
        IF r[1] = 64 THEN r[2]
        ELSE S[<< r[1] + 1, Round(r[2], K256[r[1] + 1], w[r[1] + 1]) >>]
  IN S[<< 0, h >>]

\* The 16 big-endian words of a 64-byte block.
Words(block) ==
  [ i \in 1..16 |->
      << block[4 * i - 3] * 256 + block[4 * i - 2],
         block[4 * i - 1] * 256 + block[4 * i] >> ]

\* The state with the working variables added in, word by word.
AddAll(h, s) ==
  << Add(h[1], s[1]), Add(h[2], s[2]), Add(h[3], s[3]), Add(h[4], s[4]),
     Add(h[5], s[5]), Add(h[6], s[6]), Add(h[7], s[7]), Add(h[8], s[8]) >>

\* compress256 of one 64-byte block into the state.
Compress(h, block) == AddAll(h, Rounds(h, Schedule(Words(block))))

\* The message with its padding: 0x80, zeros, the length in bits (64 bits,
\* big-endian; the messages here are shorter than 2^13 bytes).
Padded(bytes) ==
  LET zeros == (119 - (Len(bytes) % 64)) % 64
      bits == 8 * Len(bytes)
  IN bytes \o << 128 >> \o [ i \in 1..zeros |-> 0 ]
       \o << 0, 0, 0, 0, 0, 0, bits \div 256, bits % 256 >>

\* The state after every 64-byte block of the padded message.
Blocks(h, bytes) ==
  LET B[r \in Seq(Word) \X Seq(0..255)] ==
        IF r[2] = << >> THEN r[1]
        ELSE B[<< Compress(r[1], SubSeq(r[2], 1, 64)),
                  SubSeq(r[2], 65, Len(r[2])) >>]
  IN B[<< h, bytes >>]

\* Sha256::digest: 32 bytes.
Sha256(bytes) ==
  LET h == Blocks(H256, Padded(bytes))
  IN [ i \in 1..32 |->
         LET half == h[(i + 3) \div 4][((i - 1) % 4) \div 2 + 1]
         IN IF i % 2 = 1 THEN half \div 256 ELSE half % 256 ]

XorByte(a, b) == XorNibble(a \div 16, b \div 16) * 16 + XorNibble(a % 16, b % 16)

\* Hmac::<Sha256>::new_from_slice(key), update(data), finalize (RFC 2104):
\* a key longer than a block is hashed first, then padded with zeros.
ZeroPad(k) == [ i \in 1..64 |-> IF i <= Len(k) THEN k[i] ELSE 0 ]

KeyPad(block, byte) == [ i \in 1..64 |-> XorByte(block[i], byte) ]

Keyed(block, data) ==
  Sha256(KeyPad(block, 92) \o Sha256(KeyPad(block, 54) \o data))

HmacSha256(key, data) ==
  Keyed(ZeroPad(IF Len(key) > 64 THEN Sha256(key) ELSE key), data)

\* ---------------------------------------------------------------- signature

\* verify_github_signature_test: the secret "It's a Secret to Everybody",
\* the payload "Hello, World!" (as bytes) and the hex digits of the
\* signature.
TestSecret ==
  <<
     73, 116, 39, 115, 32, 97, 32, 83, 101, 99, 114, 101, 116, 32, 116,
     111, 32, 69, 118, 101, 114, 121, 98, 111, 100, 121 >>

TestPayload ==
  << 72, 101, 108, 108, 111, 44, 32, 87, 111, 114, 108, 100, 33 >>

TestSignatureHex ==
  <<
     "7", "5", "7", "1", "0", "7", "e", "a", "0", "e", "b", "2", "5", "0",
     "9", "f", "c", "2", "1", "1", "2", "2", "1", "c", "c", "e", "9", "8",
     "4", "b", "8", "a", "3", "7", "5", "7", "0", "b", "6", "d", "7", "5",
     "8", "6", "c", "2", "2", "c", "4", "6", "f", "4", "3", "7", "9", "c",
     "8", "b", "0", "4", "3", "e", "1", "7" >>

\* The secrets and the payloads the model signs: the configured secret with
\* the bodies of the deliveries, and the test's secret, the configured one
\* and the empty one with the test's payload and its tampered copies.
Tampered(payload, i) == [ payload EXCEPT ![i] = XorByte(@, 1) ]

TestPayloads ==
  { TestPayload } \cup { Tampered(TestPayload, i) : i \in { 1, 7, 13 } }

TestSecrets == { TestSecret, << 5, 9 >>, << >> }

Signed ==
  { << << 5, 9 >>, body >> : body \in Bodies }
  \cup (TestSecrets \X TestPayloads)

\* The digests of the signed pairs, computed once.
Digests ==
  { [ key |-> s[1], data |-> s[2], mac |-> HmacSha256(s[1], s[2]) ] :
      s \in Signed }

\* mac.finalize() of a Hmac<Sha256> keyed with `key` and updated with `data`.
Finalize(key, data) ==
  IF << key, data >> \in Signed
  THEN (CHOOSE d \in Digests : d.key = key /\ d.data = data).mac
  ELSE HmacSha256(key, data)

\* Hmac::<Sha256>::new_from_slice(secret): HMAC takes a key of any length, so
\* the Result is Ok and the unwrap cannot panic.
new_from_slice(key) == Some([ key |-> key, data |-> << >> ])

\* mac.update(payload)
update(mac, data) == [ mac EXCEPT !.data = @ \o data ]

\* verify_slice comparing only as many bytes as the tag has
\* (verify_truncated_left).
verify_truncated_left(mac, tag) ==
  /\ tag # << >>
  /\ IsPrefix(tag, Finalize(mac.key, mac.data))

\* mac.verify_slice(signature).is_ok(): the tag has the length of the digest
\* and equals it.
verify_slice(mac, tag) == tag = Finalize(mac.key, mac.data)

\* fn verify_github_signature
verify_github_signature(payload, secret, signature) ==
  LET mac == update(new_from_slice(secret)[1], payload)
  IN verify_slice(mac, signature)

Sha256Prefix == << "s", "h", "a", "2", "5", "6", "=" >>

\* extract_github_signature without the prefix check: a value that lacks
\* "sha256=" is decoded as it is.
extract_github_signature_any_prefix(header) ==
  IF header = None THEN None
  ELSE LET str == ToStr(header[1]) IN
       IF str = None THEN None
       ELSE LET signature_str == StripPrefix(str[1], Sha256Prefix) IN
            IF signature_str = None THEN HexDecode(str[1])
            ELSE HexDecode(signature_str[1])

\* headers.get("X-Hub-Signature-256")?.to_str().ok()?.strip_prefix("sha256=")?
\* then hex::decode(..).ok(); header is the Option of the raw header value.
extract_github_signature(header) ==
  IF header = None THEN None
  ELSE LET str == ToStr(header[1]) IN
       IF str = None THEN None
       ELSE LET signature_str == StripPrefix(str[1], Sha256Prefix) IN
            IF signature_str = None THEN None
            ELSE HexDecode(signature_str[1])

\* headers.get("X-GitHub-Event")?.to_str().ok()
extract_github_event(header) ==
  IF header = None THEN None ELSE ToStr(header[1])

\* Header values that are compared whole are one-element strings.
WorkflowJob == << "workflow_job" >>

Push == << "push" >>

EventHeaders == { None, Some(Push), Some(WorkflowJob) }

\* ------------------------------------------------------ signature headers

\* The X-Hub-Signature-256 values a sender may put on a body: none, bytes
\* that are no string, a digest without the prefix, a suffix that is no hex,
\* a hex suffix of odd length, another digest, the body's digest.
HeadersFor(mac) ==
  { None,
    Some(<< NonAscii >>),
    Some(HexEncode(mac)),
    Some(Sha256Prefix \o << "z", "z" >>),
    Some(Sha256Prefix \o << "a" >>),
    Some(Sha256Prefix \o HexEncode([ mac EXCEPT ![1] = (@ + 1) % 256 ])),
    Some(Sha256Prefix \o HexEncode(mac)) }

SignatureHeaders(secret, body) == HeadersFor(Finalize(secret, body))

\* ----------------------------------------------------------------- upstream

\* Artifact: archive_download_url is one per id and is left out.
MkArtifact(id, name) == [ id |-> id, name |-> name ]

ArtifactLists ==
  { << >>,
    << MkArtifact(3, "logs") >>,
    << MkArtifact(3, "logs"), MkArtifact(1, "site") >>,
    << MkArtifact(2, "site"), MkArtifact(1, "site") >> }

\* What the artifact-list call can come back with: no response at all, or a
\* status and a body that deserializes to WorkflowArtifactsResponse or not.
ListAnswers ==
  { None }
  \cup { Some([ status |-> st, body |-> None ]) : st \in { 200, 404 } }
  \cup { Some([ status |-> 200, body |-> Some(l) ]) : l \in ArtifactLists }
  \cup { Some([ status |-> 404,
                body |-> Some(<< MkArtifact(3, "logs"), MkArtifact(1, "site") >>) ]) }

\* get_workflow_artifacts: send, text, serde_json::from_str; the status of
\* the response is never looked at.
get_workflow_artifacts(answer) ==
  IF answer = None THEN None ELSE answer[1].body

MkEntry(name, data, enclosed) ==
  [ name |-> name, data |-> data, enclosed |-> enclosed ]

\* The bytes of a download: no zip at all, a zip of two files, a zip whose
\* second entry has a name that leaves the output directory.
ArchivesOf(id) ==
  { [ zip |-> FALSE, entries |-> << >> ],
    [ zip |-> TRUE,
      entries |-> << MkEntry("x", id, TRUE), MkEntry("y", id, TRUE) >> ],
    [ zip |-> TRUE,
      entries |-> << MkEntry("x", id, TRUE), MkEntry("y", id, FALSE) >> ] }

ContentTypes ==
  { None, Some(<< "zip" >>), Some(<< "application/zip" >>),
    Some(<< "text/html" >>) }

\* download_github_artifact: None, or the response's headers and bytes.
DownloadAnswers(artifact) ==
  { None }
  \cup { Some([ content_type |-> ct, bytes |-> a ]) :
           ct \in ContentTypes, a \in ArchivesOf(artifact.id) }

\* find_artifact taking the first artifact of the list, whatever its name.
find_artifact_first(artifacts, name) ==
  IF artifacts = << >> THEN None ELSE Some(artifacts[1])

\* find_artifact taking the last artifact of the list that has the name.
find_artifact_last(artifacts, name) ==
  LET named == { i \in 1..Len(artifacts) : artifacts[i].name = name }
  IN IF named = { } THEN None
     ELSE Some(artifacts[CHOOSE i \in named : \A j \in named : j <= i])

\* artifacts.iter().find(|a| a.name == data.artifact)
RECURSIVE find_artifact(_, _)
find_artifact(artifacts, name) ==
  IF artifacts = << >> THEN None
  ELSE IF artifacts[1].name = name THEN Some(artifacts[1])
       ELSE find_artifact(Tail(artifacts), name)

\* --------------------------------------------------------------- filesystem

Shas == { ShaNames[i] : i \in 1..Len(ShaNames) }

Templates ==
  { c.output : c \in Configs } \cup { c.symlink[1] : c \in { k \in Configs : k.symlink # None } }

Paths == { parse_artifact_value(t, s) : t \in Templates, s \in Shas }

EntryNames == { "x", "y" }

NoFile == None

EmptyDir == [ e \in EntryNames |-> NoFile ]

\* ---------------------------------------------- functions called on their own

\* A call of one function with its arguments; the result is None until the
\* function has returned.
MkCall(fn, args) == [ fn |-> fn, args |-> args, result |-> None ]

\* The signatures the calls of verify_github_signature try under a secret:
\* the digest of every payload, the signature of the crate's test, and the
\* digest of the test's payload cut short, extended, with its last byte
\* changed, and no bytes at all.
Misshapen(mac) ==
  { SubSeq(mac, 1, Len(mac) - 1), mac \o << 0 >>,
    [ mac EXCEPT ![Len(mac)] = XorByte(@, 1) ], << >> }

TestSignatures(secret) ==
  { Finalize(secret, payload) : payload \in TestPayloads }
  \cup { HexDecode(TestSignatureHex)[1] }
  \cup Misshapen(Finalize(secret, TestPayload))

VerifyCalls ==
  { MkCall("verify_github_signature", << payload, secret, signature >>) :
      payload \in TestPayloads,
      << secret, signature >> \in
        UNION { { << s, g >> : g \in TestSignatures(s) } : s \in TestSecrets } }

\* The templates and the commit hashes parse_artifact_value is called with:
\* the configured templates, one with the placeholder twice and one with
\* the placeholder inside the letters of another; a hash, the empty hash
\* and a hash that is the placeholder.
TwicePerCommit == Placeholder \o << "/" >> \o Placeholder

NestedPerCommit ==
  SubSeq(Placeholder, 1, 6) \o Placeholder \o SubSeq(Placeholder, 7, 10)

ParseTemplates ==
  { OutPerCommit, OutFixed, LinkLatest, LinkPerCommit, TwicePerCommit,
    NestedPerCommit }

ParseShas == { << "a" >>, << "4", "f" >>, << >>, Placeholder }

ParseCalls ==
  { MkCall("parse_artifact_value", << value, head_sha >>) :
      value \in ParseTemplates, head_sha \in ParseShas }

\* -------------------------------------------------------------------- state

VARIABLES
  cfg,        \* the Config shared by every request
  req,        \* per slot: the request task running post_github_workflow, with
              \* what it did so far (stages run, calls sent, writes made) and
              \* the filesystem it found
  dirs,       \* path -> Option of the directory there (entry -> Option file)
  links,      \* path -> Option of the target of the symlink there
  delivered,  \* webhook deliveries so far
  call        \* Option of a call of one function on its own, as the crate's
              \* tests make it: the function, its arguments, its result

vars == << cfg, req, dirs, links, delivered, call >>

Slots == 1..NumSlots

IdleRequest ==
  [ pc |-> "idle", signature |-> None, event |-> None, body |-> << >>,
    payload |-> None, listAnswer |-> None, artifacts |-> << >>,
    artifact |-> None, download |-> None, next |-> 0,
    output |-> << >>, resp |-> 0, terminal |-> << >>, stages |-> << >>,
    listCalls |-> 0, downloadCalls |-> 0, extractCalls |-> 0,
    symlinkCalls |-> 0, writes |-> 0, dirs0 |-> << >>, links0 |-> << >>,
    prev |-> None ]

\* The process is the server, started with one of the configurations and
\* no call of a function on its own, or it is the test binary, which makes
\* one such call and serves nothing.
Init ==
  /\ req = [ r \in Slots |-> IdleRequest ]
  /\ dirs = [ p \in Paths |-> None ]
  /\ links = [ p \in Paths |-> None ]
  /\ delivered = 0
  /\ \/ cfg \in Configs /\ call = None
     \/ /\ cfg = MkConfig(GoodToken, OutPerCommit, None)
        /\ \/ call \in { Some(c) : c \in VerifyCalls }
           \/ call \in { Some(c) : c \in ParseCalls }

\* The request enters stage `stage` of the handler.
Enter(rec, stage) == [ rec EXCEPT !.stages = Append(@, stage) ]

\* `return HttpResponse::...`: the request ends in `state` with `status`.
Respond(rec, state, status) ==
  [ rec EXCEPT !.pc = "done", !.resp = status, !.terminal = Append(@, state) ]

Goto(rec, pc) == [ rec EXCEPT !.pc = pc ]

Local(r, rec) ==
  /\ req' = [ req EXCEPT ![r] = rec ]
  /\ UNCHANGED << cfg, dirs, links, delivered, call >>

\* What a later delivery is compared with: a request that ended Installed,
\* its inputs, the answers it got and the filesystem it left.
Installed(rec) ==
  IF rec.terminal = << "Installed" >>
  THEN Some([ signature |-> rec.signature, event |-> rec.event,
              body |-> rec.body, listAnswer |-> rec.listAnswer,
              download |-> rec.download, dirs |-> dirs, links |-> links ])
  ELSE None

\* A delivery reaches the endpoint: actix hands the handler the headers and
\* the body.  Deliveries come one after the other (the sender redelivers
\* after it has the response), each in a fresh task; the first slot runs it.
Deliver(r) ==
  /\ delivered < MaxDeliveries
  /\ \A s \in Slots : req[s].pc \in { "idle", "done" }
  /\ r = 1
  /\ call = None
  /\ \E body \in Bodies :
       \E signature \in SignatureHeaders(cfg.secret, body), event \in EventHeaders :
         req' = [ req EXCEPT ![r] =
                    [ IdleRequest EXCEPT !.pc = "signature",
                        !.signature = signature, !.event = event,
                        !.body = body, !.dirs0 = dirs, !.links0 = links,
                        !.prev = Installed(req[r]) ] ]
  /\ delivered' = delivered + 1
  /\ UNCHANGED << cfg, dirs, links, call >>

\* CheckSignature with the `return` of its rejecting arm lost: the warning is
\* logged and the handler goes on.
CheckSignature_falls_through(r) ==
  /\ req[r].pc = "signature"
  /\ Local(r, Goto(Enter(req[r], "signature"), "event"))

\* main.rs 209-217
CheckSignature(r) ==
  /\ req[r].pc = "signature"
  /\ LET rec == Enter(req[r], "signature")
         signature == extract_github_signature(rec.signature)
     IN Local(r, IF signature # None
                    /\ verify_github_signature(rec.body, cfg.secret, signature[1])
                 THEN Goto(rec, "event")
                 ELSE Respond(rec, "Unauthenticated", BadRequest))

\* CheckEvent answering another event like a filtered one: 204, not 400.
CheckEvent_no_content(r) ==
  /\ req[r].pc = "event"
  /\ LET rec == Enter(req[r], "event")
         event == extract_github_event(rec.event)
     IN Local(r, IF event # None /\ event[1] = WorkflowJob
                 THEN Goto(rec, "parse")
                 ELSE Respond(rec, "WrongEvent", NoContent))

\* main.rs 219-227
CheckEvent(r) ==
  /\ req[r].pc = "event"
  /\ LET rec == Enter(req[r], "event")
         event == extract_github_event(rec.event)
     IN Local(r, IF event # None /\ event[1] = WorkflowJob
                 THEN Goto(rec, "parse")
                 ELSE Respond(rec, "WrongEvent", BadRequest))

\* main.rs 229-235
ParseBody(r) ==
  /\ req[r].pc = "parse"
  /\ LET rec == Enter(req[r], "parse")
         payload == from_slice(rec.body)
     IN Local(r, IF payload # None
                 THEN [ Goto(rec, "status") EXCEPT !.payload = payload ]
                 ELSE Respond(rec, "Malformed", BadRequest))

\* main.rs 237-240
FilterStatus(r) ==
  /\ req[r].pc = "status"
  /\ LET rec == Enter(req[r], "status")
     IN Local(r, IF rec.payload[1].status # "completed"
                 THEN Respond(rec, "NotCompleted", NoContent)
                 ELSE Goto(rec, "branch"))

\* FilterBranch comparing the branch and going on all the same.
FilterBranch_any_branch(r) ==
  /\ req[r].pc = "branch"
  /\ Local(r, Goto(Enter(req[r], "branch"), "client"))

\* main.rs 242-245
FilterBranch(r) ==
  /\ req[r].pc = "branch"
  /\ LET rec == Enter(req[r], "branch")
     IN Local(r, IF rec.payload[1].head_branch # cfg.branch
                 THEN Respond(rec, "WrongBranch", NoContent)
                 ELSE Goto(rec, "client"))

\* build_github_client_and_headers: "Bearer <token>" must parse as a header
\* value, which a control character in the token prevents.
build_github_client_and_headers(token) ==
  IF \E i \in 1..Len(token) : token[i] = "\n" THEN None ELSE Some(token)

\* main.rs 249-254
BuildClient(r) ==
  /\ req[r].pc = "client"
  /\ LET rec == Enter(req[r], "client")
     IN Local(r, IF build_github_client_and_headers(cfg.token) # None
                 THEN Goto(rec, "list")
                 ELSE Respond(rec, "ClientFailed", InternalServerError))

\* main.rs 256-263, 177: the artifact-list GET is sent; the task awaits.
SendList(r) ==
  /\ req[r].pc = "list"
  /\ Local(r, [ Goto(Enter(req[r], "list"), "list_wait")
                  EXCEPT !.listCalls = @ + 1 ])

\* main.rs 264-270: the await returns.
RecvList(r) ==
  /\ req[r].pc = "list_wait"
  /\ \E answer \in ListAnswers :
       LET rec == [ req[r] EXCEPT !.listAnswer = Some(answer) ]
           response == get_workflow_artifacts(answer)
       IN Local(r, IF response # None
                   THEN [ Goto(rec, "select") EXCEPT !.artifacts = response[1] ]
                   ELSE Respond(rec, "UpstreamQueryFailed", InternalServerError))

\* main.rs 272-284
SelectArtifact(r) ==
  /\ req[r].pc = "select"
  /\ LET rec == Enter(req[r], "select")
         found == find_artifact(rec.artifacts, cfg.artifact)
     IN Local(r, IF found # None
                 THEN [ Goto(rec, "download") EXCEPT !.artifact = found ]
                 ELSE Respond(rec, "NoMatchingArtifact", NoContent))

\* main.rs 286-287, 188-193: the download GET is sent; the task awaits.
SendDownload(r) ==
  /\ req[r].pc = "download"
  /\ Local(r, [ Goto(Enter(req[r], "download"), "download_wait")
                  EXCEPT !.downloadCalls = @ + 1 ])

\* RecvDownload sending the GET again when it failed.
RecvDownload_retries(r) ==
  /\ req[r].pc = "download_wait"
  /\ \E answer \in DownloadAnswers(req[r].artifact[1]) :
       Local(r, IF answer # None
                THEN [ Goto(req[r], "content_type") EXCEPT !.download = answer ]
                ELSE Goto(req[r], "download"))

\* main.rs 288-293: the await returns.
RecvDownload(r) ==
  /\ req[r].pc = "download_wait"
  /\ \E answer \in DownloadAnswers(req[r].artifact[1]) :
       Local(r, IF answer # None
                THEN [ Goto(req[r], "content_type") EXCEPT !.download = answer ]
                ELSE Respond(req[r], "DownloadFailed", InternalServerError))

\* is_zip letting a response without Content-Type through.
is_zip_or_missing(content_type) ==
  content_type = None \/ content_type[1] = << "zip" >>

\* artifact_headers.get("Content-Type") matched against Some(x) if x == "zip"
is_zip(content_type) == content_type # None /\ content_type[1] = << "zip" >>

\* main.rs 295-303
CheckContentType(r) ==
  /\ req[r].pc = "content_type"
  /\ LET rec == Enter(req[r], "content_type")
     IN Local(r, IF is_zip(rec.download[1].content_type)
                 THEN Goto(rec, "open")
                 ELSE Respond(rec, "BadContentType", InternalServerError))

\* main.rs 305-313: zip::ZipArchive::new reads the central directory.
OpenArchive(r) ==
  /\ req[r].pc = "open"
  /\ LET rec == Enter(req[r], "open")
     IN Local(r, IF rec.download[1].bytes.zip
                 THEN Goto(rec, "resolve")
                 ELSE Respond(rec, "ExtractFailed", InternalServerError))

\* main.rs 315-324
ResolveOutput(r) ==
  /\ req[r].pc = "resolve"
  /\ Local(r, [ Goto(req[r], "extract") EXCEPT
                  !.output = parse_artifact_value(cfg.output,
                                                  req[r].payload[1].head_sha) ])

\* A path names what the symlink at it points to, if there is one.
Follow(path) == IF links[path] # None THEN links[path][1] ELSE path

\* main.rs 326: artifact.extract(&output) starts.
BeginExtract(r) ==
  /\ req[r].pc = "extract"
  /\ Local(r, [ Goto(Enter(req[r], "extract"), "entry")
                  EXCEPT !.extractCalls = @ + 1, !.next = 1 ])

\* ZipArchive::extract, one entry: an entry whose name leaves the directory
\* is an error; else the directory is made if need be and File::create makes
\* the file or truncates the one there.  After the last entry: Ok(()).
ExtractEntry(r) ==
  /\ req[r].pc = "entry"
  /\ LET rec == req[r]
         entries == rec.download[1].bytes.entries
         target == Follow(rec.output)
     IN IF rec.next > Len(entries)
        THEN /\ req' = [ req EXCEPT ![r] = Goto(rec, "symlink") ]
             /\ UNCHANGED dirs
        ELSE IF ~entries[rec.next].enclosed
        THEN /\ req' = [ req EXCEPT ![r] =
                           Respond(rec, "ExtractFailed", InternalServerError) ]
             /\ UNCHANGED dirs
        ELSE /\ req' = [ req EXCEPT ![r] =
                           [ Goto(rec, "copy") EXCEPT !.writes = @ + 1 ] ]
             /\ dirs' = [ dirs EXCEPT ![target] =
                   Some([ (IF @ = None THEN EmptyDir ELSE @[1])
                            EXCEPT ![entries[rec.next].name] =
                              Some([ data |-> entries[rec.next].data,
                                     complete |-> FALSE ]) ]) ]
  /\ UNCHANGED << cfg, links, delivered, call >>

\* ZipArchive::extract, io::copy: the entry's bytes are in the file.
ExtractCopy(r) ==
  /\ req[r].pc = "copy"
  /\ LET rec == req[r]
         entry == rec.download[1].bytes.entries[rec.next]
         target == Follow(rec.output)
     IN /\ req' = [ req EXCEPT ![r] =
                      [ Goto(rec, "entry") EXCEPT !.next = @ + 1, !.writes = @ + 1 ] ]
        /\ dirs' = [ dirs EXCEPT ![target] =
              Some([ (IF @ = None THEN EmptyDir ELSE @[1])
                       EXCEPT ![entry.name] =
                         Some([ data |-> entry.data, complete |-> TRUE ]) ]) ]
  /\ UNCHANGED << cfg, links, delivered, call >>

\* symlink replacing the symlink that is at link (create-or-replace).
symlink_or_replace(original, link) ==
  IF dirs[link] # None
  THEN None
  ELSE Some([ links EXCEPT ![link] = Some(original) ])

\* std::os::unix::fs::symlink(original, link): fails when anything is at link.
symlink(original, link) ==
  IF dirs[link] # None \/ links[link] # None
  THEN None
  ELSE Some([ links EXCEPT ![link] = Some(original) ])

\* MakeSymlink with the result of fs::symlink dropped: the request is
\* answered 204 whether the symlink was made or not.
MakeSymlink_unchecked(r) ==
  /\ req[r].pc = "symlink"
  /\ LET rec == IF cfg.symlink = None THEN req[r]
                ELSE [ Enter(req[r], "symlink") EXCEPT !.symlinkCalls = @ + 1 ]
         made == IF cfg.symlink = None THEN None
                 ELSE symlink(rec.output,
                              parse_artifact_value(cfg.symlink[1],
                                                   rec.payload[1].head_sha))
     IN /\ links' = IF made # None THEN made[1] ELSE links
        /\ req' = [ req EXCEPT ![r] = Respond(rec, "Installed", NoContent) ]
  /\ UNCHANGED << cfg, dirs, delivered, call >>

\* main.rs 336-363
MakeSymlink(r) ==
  /\ req[r].pc = "symlink"
  /\ IF cfg.symlink = None
     THEN /\ req' = [ req EXCEPT ![r] = Respond(req[r], "Installed", NoContent) ]
          /\ UNCHANGED links
     ELSE LET rec == [ Enter(req[r], "symlink") EXCEPT !.symlinkCalls = @ + 1 ]
              link == parse_artifact_value(cfg.symlink[1], rec.payload[1].head_sha)
              made == symlink(rec.output, link)
          IN IF made # None
             THEN /\ links' = made[1]
                  /\ req' = [ req EXCEPT ![r] =
                                [ Respond(rec, "Installed", NoContent)
                                    EXCEPT !.writes = @ + 1 ] ]
             ELSE /\ UNCHANGED links
                  /\ req' = [ req EXCEPT ![r] =
                                Respond(rec, "SymlinkFailed", InternalServerError) ]
  /\ UNCHANGED << cfg, dirs, delivered, call >>

\* main.rs 393-404: verify_github_signature is called on its arguments and
\* returns.
CallVerify ==
  /\ call # None
  /\ call[1].fn = "verify_github_signature"
  /\ call[1].result = None
  /\ call' = Some([ call[1] EXCEPT !.result =
                      Some(verify_github_signature(call[1].args[1],
                                                   call[1].args[2],
                                                   call[1].args[3])) ])
  /\ UNCHANGED << cfg, req, dirs, links, delivered >>

\* main.rs 66-69: parse_artifact_value is called on its arguments and returns.
CallParse ==
  /\ call # None
  /\ call[1].fn = "parse_artifact_value"
  /\ call[1].result = None
  /\ call' = Some([ call[1] EXCEPT !.result =
                      Some(parse_artifact_value(call[1].args[1],
                                                call[1].args[2])) ])
  /\ UNCHANGED << cfg, req, dirs, links, delivered >>

\* ------------------------------------------------------ what a reader finds

ArtifactIds ==
  UNION { { l[i].id : i \in 1..Len(l) } : l \in ArtifactLists }

\* A directory holds one archive's files, whole.
FullyExtracted(dir) ==
  \E id \in ArtifactIds :
    \A e \in EntryNames : dir[e] = Some([ data |-> id, complete |-> TRUE ])

\* What is behind the symlink at `link`, as whoever follows it finds it.
Behind(link) ==
  LET target == links[link][1]
  IN IF dirs[target] = None THEN "missing"
     ELSE IF FullyExtracted(dirs[target][1]) THEN "complete"
     ELSE "partial"

\* --------------------------------------------------------------------- spec

\* One step of the handler on a request it has been given.
Handler(r) ==
  \/ CheckSignature(r)
  \/ CheckEvent(r)
  \/ ParseBody(r)
  \/ FilterStatus(r)
  \/ FilterBranch(r)
  \/ BuildClient(r)
  \/ SendList(r)
  \/ RecvList(r)
  \/ SelectArtifact(r)
  \/ SendDownload(r)
  \/ RecvDownload(r)
  \/ CheckContentType(r)
  \/ OpenArchive(r)
  \/ ResolveOutput(r)
  \/ BeginExtract(r)
  \/ ExtractEntry(r)
  \/ ExtractCopy(r)
  \/ MakeSymlink(r)

Step(r) == Deliver(r) \/ Handler(r)

Next ==
  \/ \E r \in Slots : Step(r)
  \/ CallVerify
  \/ CallParse

Spec == Init /\ [][Next]_vars

\* ----------------------------------------------------- concurrent requests

\* The bodies that pass the status and the branch filters.
PassingBodies ==
  { body \in GoodBodies :
      /\ from_slice(body)[1].status = "completed"
      /\ from_slice(body)[1].head_branch = cfg.branch }

\* HttpServer::run serves each connection in a task of its own and the
\* Config is shared through Data<Config>: a delivery arrives at a free slot
\* while another request may be anywhere in the handler.  The deliveries
\* are authentic workflow_job deliveries that pass the filters.
Arrive(r) ==
  /\ req[r].pc = "idle"
  /\ call = None
  /\ \E body \in PassingBodies :
       req' = [ req EXCEPT ![r] =
                  [ IdleRequest EXCEPT !.pc = "signature",
                      !.signature =
                        Some(Sha256Prefix \o HexEncode(Finalize(cfg.secret, body))),
                      !.event = Some(WorkflowJob),
                      !.body = body, !.dirs0 = dirs, !.links0 = links ] ]
  /\ delivered' = delivered + 1
  /\ UNCHANGED << cfg, dirs, links, call >>

\* The server has started on an empty filesystem: no directory, no symlink.
InitConcurrent ==
  /\ req = [ r \in Slots |-> IdleRequest ]
  /\ dirs = [ p \in Paths |-> None ]
  /\ links = [ p \in Paths |-> None ]
  /\ delivered = 0
  /\ cfg \in Configs
  /\ call = None

NextConcurrent == \E r \in Slots : Arrive(r) \/ Handler(r)

SpecConcurrent == InitConcurrent /\ [][NextConcurrent]_vars

\* ------------------------------------------------------------------- claims

\* The stages of the handler, in the order of the source.
Pipeline ==
  << "signature", "event", "parse", "status", "branch", "client", "list",
     "select", "download", "content_type", "open", "extract", "symlink" >>

Ran(rec, stage) == \E i \in 1..Len(rec.stages) : rec.stages[i] = stage

Delivered(rec) == rec.pc # "idle"

\* The characters that are hex digits, of either case.
HexChars ==
  { HexDigits[k] : k \in 1..16 } \cup { UpperHexDigits[k] : k \in 1..16 }

\* The digits spell the bytes of the digest, two per byte, in either case.
Spells(digits, mac) ==
  /\ Len(digits) = 2 * Len(mac)
  /\ \A i \in 1..Len(mac) :
       /\ digits[2 * i - 1] \in { HexDigits[(mac[i] \div 16) + 1],
                                  UpperHexDigits[(mac[i] \div 16) + 1] }
       /\ digits[2 * i] \in { HexDigits[(mac[i] % 16) + 1],
                              UpperHexDigits[(mac[i] % 16) + 1] }

\* The request carries the digest of its own body under the configured
\* secret, in hex of either case behind "sha256=".
Authentic(rec) ==
  /\ rec.signature # None
  /\ IsPrefix(Sha256Prefix, rec.signature[1])
  /\ Spells(SubSeq(rec.signature[1], Len(Sha256Prefix) + 1,
                   Len(rec.signature[1])),
            Finalize(cfg.secret, rec.body))

RightEvent(rec) == rec.event = Some(<< "workflow_job" >>)

WellFormed(rec) == rec.body \in GoodBodies

\* The request wrote nothing, and the filesystem is as it found it.
Untouched(rec) == rec.writes = 0 /\ dirs = rec.dirs0 /\ links = rec.links0

NoUpstreamCall(rec) == rec.listCalls = 0 /\ rec.downloadCalls = 0

\* C1: the stages of a request run in the order signature, event, parse,
\* status, branch (and on), and a stage runs only if every earlier stage let
\* the request through: the event is looked at only behind a verified
\* signature, the body is parsed only behind that and the right event, the
\* filters run only on a parsed body.
C1_StageOrder ==
  \A r \in Slots :
    LET rec == req[r] IN
    /\ IsPrefix(rec.stages, Pipeline)
    /\ Ran(rec, "event") => Authentic(rec)
    /\ Ran(rec, "parse") => Authentic(rec) /\ RightEvent(rec)
    /\ rec.payload # None => Ran(rec, "parse") /\ Authentic(rec)
    /\ Ran(rec, "status") => RightEvent(rec) /\ WellFormed(rec)
    /\ Ran(rec, "branch") =>
         WellFormed(rec) /\ StatusNames[rec.body[3]] = "completed"

\* A request went through all five stages and the last one turned it away.
C1_Witness ==
  \E r \in Slots :
    /\ req[r].stages = SubSeq(Pipeline, 1, 5)
    /\ req[r].terminal = << "WrongBranch" >>

\* The four ways a signature fails, read off the header value.
SignatureAbsent(rec) == rec.signature = None

SignatureLacksPrefix(rec) ==
  rec.signature # None /\ ~IsPrefix(Sha256Prefix, rec.signature[1])

SignatureSuffix(rec) ==
  SubSeq(rec.signature[1], Len(Sha256Prefix) + 1, Len(rec.signature[1]))

SignatureNotHex(rec) ==
  /\ rec.signature # None
  /\ IsPrefix(Sha256Prefix, rec.signature[1])
  /\ \/ Len(SignatureSuffix(rec)) % 2 = 1
     \/ \E i \in 1..Len(SignatureSuffix(rec)) :
          SignatureSuffix(rec)[i] \notin HexChars

SignatureWrongDigest(rec) ==
  /\ rec.signature # None
  /\ IsPrefix(Sha256Prefix, rec.signature[1])
  /\ ~SignatureNotHex(rec)
  /\ ~Spells(SignatureSuffix(rec), Finalize(cfg.secret, rec.body))

SignatureFails(rec) ==
  \/ SignatureAbsent(rec)
  \/ SignatureLacksPrefix(rec)
  \/ SignatureNotHex(rec)
  \/ SignatureWrongDigest(rec)

\* C2: once the signature stage has run on a request whose signature header
\* is absent, lacks the prefix, has a suffix that is no hex, or carries a
\* digest that does not verify, the request has ended, in each of the four
\* cases alike, with 400 in Unauthenticated, whatever its body and event
\* header; no other stage ran, nothing was called, nothing was written.
C2_BadSignatureRejected ==
  \A r \in Slots :
    LET rec == req[r] IN
    (rec.pc \notin { "idle", "signature" } /\ SignatureFails(rec)) =>
      /\ rec.pc = "done"
      /\ rec.resp = BadRequest
      /\ rec.terminal = << "Unauthenticated" >>
      /\ rec.stages = << "signature" >>
      /\ rec.payload = None
      /\ NoUpstreamCall(rec)
      /\ Untouched(rec)

\* A request that is right in everything but its digest was turned away.
C2_Witness ==
  \E r \in Slots :
    /\ req[r].pc = "done"
    /\ SignatureWrongDigest(req[r])
    /\ RightEvent(req[r])
    /\ req[r].body = << 1, 7, 1, 1, 1 >>
    /\ req[r].resp = BadRequest

\* The symlink path of a request, where a symlink template is configured.
LinkPath(rec) == parse_artifact_value(cfg.symlink[1], rec.payload[1].head_sha)

\* C3 (as claimed): a request that reached the symlink step while a symlink
\* left by an earlier install was at its symlink path has, when it ends,
\* replaced it: the symlink points to the directory it extracted into.
C3_SymlinkReplaced ==
  \A r \in Slots :
    LET rec == req[r] IN
    (/\ rec.pc = "done"
     /\ rec.symlinkCalls = 1
     /\ rec.links0[LinkPath(rec)] # None) =>
      links[LinkPath(rec)] = Some(rec.output)

\* C4 (as claimed): a delivery that repeats the delivery installed just
\* before it (same headers and body) and gets the same upstream answers ends
\* in 204 too and leaves the filesystem as the first run left it.
C4_RedeliveryIdempotent ==
  \A r \in Slots :
    LET rec == req[r] IN
    (/\ rec.pc = "done"
     /\ rec.prev # None
     /\ rec.signature = rec.prev[1].signature
     /\ rec.event = rec.prev[1].event
     /\ rec.body = rec.prev[1].body
     /\ rec.listAnswer = rec.prev[1].listAnswer
     /\ rec.download = rec.prev[1].download) =>
      /\ rec.resp = NoContent
      /\ dirs = rec.prev[1].dirs
      /\ links = rec.prev[1].links

\* C5 (as claimed): whenever a symlink exists, the directory it points to
\* exists and holds one archive's files, whole: whoever follows the symlink
\* never finds a missing or half-written target.
C5_SymlinkTargetComplete ==
  \A link \in Paths : links[link] # None => Behind(link) = "complete"

TerminalStates ==
  { "Unauthenticated", "WrongEvent", "Malformed", "NotCompleted",
    "WrongBranch", "ClientFailed", "UpstreamQueryFailed",
    "NoMatchingArtifact", "DownloadFailed", "BadContentType",
    "ExtractFailed", "SymlinkFailed", "Installed" }

\* C6: a request starts at the signature check and ends in exactly one
\* terminal state: it entered at most one, it has ended exactly when it
\* entered one, and then the handler takes no further step on it.  Nothing
\* is retried: no stage ran twice, the
\* artifact-list call and the download were each sent at most once, and
\* extraction and symlink creation were each attempted at most once.
C6_SingleAttempt ==
  \A r \in Slots :
    LET rec == req[r] IN
    /\ Len(rec.terminal) <= 1
    /\ \A i \in 1..Len(rec.terminal) : rec.terminal[i] \in TerminalStates
    /\ rec.pc = "done" <=> Len(rec.terminal) = 1
    /\ rec.pc = "done" => ~ENABLED Handler(r)
    /\ (Delivered(rec) /\ rec.stages = << >>) => rec.pc = "signature"
    /\ rec.stages # << >> => rec.stages[1] = "signature"
    /\ \A i, j \in 1..Len(rec.stages) : i # j => rec.stages[i] # rec.stages[j]
    /\ rec.listCalls <= 1
    /\ rec.downloadCalls <= 1
    /\ rec.extractCalls <= 1
    /\ rec.symlinkCalls <= 1

\* A request made both calls, extracted and tried the symlink, once each,
\* and ended.
C6_Witness ==
  \E r \in Slots :
    /\ req[r].pc = "done"
    /\ req[r].listCalls = 1
    /\ req[r].downloadCalls = 1
    /\ req[r].extractCalls = 1
    /\ req[r].symlinkCalls = 1

NamesArtifact(rec) ==
  \E i \in 1..Len(rec.listAnswer[1][1].body[1]) :
    rec.listAnswer[1][1].body[1][i].name = cfg.artifact

\* The terminal state a finished request belongs in, read off its headers
\* and body, the configuration, the answers it got and the filesystem it
\* found.
ExpectedState(rec) ==
  IF SignatureFails(rec) THEN "Unauthenticated"
  ELSE IF ~RightEvent(rec) THEN "WrongEvent"
  ELSE IF rec.body \in BadBodies THEN "Malformed"
  ELSE IF StatusNames[rec.body[3]] # "completed" THEN "NotCompleted"
  ELSE IF BranchNames[rec.body[4]] # cfg.branch THEN "WrongBranch"
  ELSE IF cfg.token = BadToken THEN "ClientFailed"
  ELSE IF rec.listAnswer[1] = None \/ rec.listAnswer[1][1].body = None
       THEN "UpstreamQueryFailed"
  ELSE IF ~NamesArtifact(rec) THEN "NoMatchingArtifact"
  ELSE IF rec.download = None THEN "DownloadFailed"
  ELSE IF rec.download[1].content_type # Some(<< "zip" >>) THEN "BadContentType"
  ELSE IF \/ ~rec.download[1].bytes.zip
          \/ \E i \in 1..Len(rec.download[1].bytes.entries) :
               ~rec.download[1].bytes.entries[i].enclosed
       THEN "ExtractFailed"
  ELSE IF /\ cfg.symlink # None
          /\ \/ rec.links0[LinkPath(rec)] # None
             \/ rec.dirs0[LinkPath(rec)] # None
             \/ LinkPath(rec) = rec.output
       THEN "SymlinkFailed"
  ELSE "Installed"

StatusOf(state) ==
  CASE state \in { "Unauthenticated", "WrongEvent", "Malformed" } -> 400
    [] state \in { "NotCompleted", "WrongBranch", "NoMatchingArtifact",
                   "Installed" } -> 204
    [] OTHER -> 500

\* C7: a finished request is in the terminal state its inputs put it in and
\* its status is that state's: 400 for a bad signature, another or no event
\* and an undeserializable body; 204 for a job not completed, another
\* branch, no matching artifact and a completed install; 500 for a failed
\* artifact-list call, download, content-type check, extraction or symlink
\* creation (and for a client that cannot be built).  No other status is
\* returned, and none before the request has ended.
C7_StatusByTerminalState ==
  \A r \in Slots :
    LET rec == req[r] IN
    /\ rec.resp \in { 0, 400, 204, 500 }
    /\ rec.resp = 0 <=> rec.pc # "done"
    /\ rec.pc = "done" =>
         /\ rec.terminal = << ExpectedState(rec) >>
         /\ rec.resp = StatusOf(ExpectedState(rec))

\* A valid request for the event "push" was answered 400.
C7_Witness ==
  \E r \in Slots :
    /\ req[r].pc = "done"
    /\ Authentic(req[r])
    /\ req[r].event = Some(<< "push" >>)
    /\ req[r].resp = 400

FilteredOut(rec) ==
  /\ Authentic(rec)
  /\ RightEvent(rec)
  /\ WellFormed(rec)
  /\ \/ StatusNames[rec.body[3]] # "completed"
     \/ BranchNames[rec.body[4]] # cfg.branch

\* C8: an authentic workflow_job request whose job is not completed, or is
\* on another branch than Config.branch, never sends an upstream call and
\* never attempts an extraction or a symlink; when it has ended it was
\* answered 204 and the filesystem is as the request found it.
C8_FilteredIsNoOp ==
  \A r \in Slots :
    LET rec == req[r] IN
    FilteredOut(rec) =>
      /\ NoUpstreamCall(rec)
      /\ rec.extractCalls = 0
      /\ rec.symlinkCalls = 0
      /\ Untouched(rec)
      /\ rec.pc = "done" => rec.resp = NoContent

\* A request for a job in progress ended, on a filesystem that holds an
\* earlier install.
C8_Witness ==
  \E r \in Slots :
    /\ req[r].pc = "done"
    /\ FilteredOut(req[r])
    /\ StatusNames[req[r].body[3]] = "in_progress"
    /\ \E p \in Paths : dirs[p] # None

\* The artifact-list call succeeded and no artifact has the configured name.
NothingToDo(rec) ==
  /\ rec.listAnswer # None
  /\ rec.listAnswer[1] # None
  /\ rec.listAnswer[1][1].body # None
  /\ ~NamesArtifact(rec)

\* C9: after an artifact list that is empty or names no artifact
\* Config.artifact, in both cases alike, no download is sent, nothing is
\* extracted, no symlink is attempted and the filesystem stays as the
\* request found it; the request ends in NoMatchingArtifact with 204.
C9_NoMatchIsNoOp ==
  \A r \in Slots :
    LET rec == req[r] IN
    NothingToDo(rec) =>
      /\ rec.pc \in { "select", "done" }
      /\ rec.downloadCalls = 0
      /\ rec.extractCalls = 0
      /\ rec.symlinkCalls = 0
      /\ Untouched(rec)
      /\ rec.pc = "done" =>
           rec.resp = NoContent /\ rec.terminal = << "NoMatchingArtifact" >>

\* A request whose list held only an artifact of another name has ended.
C9_Witness ==
  \E r \in Slots :
    /\ req[r].pc = "done"
    /\ NothingToDo(req[r])
    /\ req[r].listAnswer[1][1].body[1] # << >>

\* A Content-Type that says zip.
IndicatesZip(content_type) ==
  content_type \in { Some(<< "zip" >>), Some(<< "application/zip" >>) }

\* C10: the archive is opened only behind the content-type check and only
\* when the download's Content-Type says zip; a download whose Content-Type
\* is missing or says anything else ends the request, once the check has
\* run, in 500, and the request has opened and extracted nothing and left
\* the filesystem as it found it.
C10_ContentTypeBeforeOpen ==
  \A r \in Slots :
    LET rec == req[r] IN
    /\ Ran(rec, "open") =>
         Ran(rec, "content_type") /\ IndicatesZip(rec.download[1].content_type)
    /\ rec.extractCalls > 0 => Ran(rec, "open")
    /\ (rec.download # None /\ ~IndicatesZip(rec.download[1].content_type)
          /\ rec.pc # "content_type") =>
         /\ rec.pc = "done"
         /\ rec.resp = InternalServerError
         /\ ~Ran(rec, "open")
         /\ rec.extractCalls = 0
         /\ Untouched(rec)

\* A download that came without Content-Type ended its request in 500.
C10_Witness ==
  \E r \in Slots :
    /\ req[r].pc = "done"
    /\ req[r].download # None
    /\ req[r].download[1].content_type = None
    /\ req[r].download[1].bytes.zip
    /\ req[r].resp = InternalServerError

\* ------------------------------------------------------------ C11 .. C12

\* The artifact-list call of the request failed: no response came, or the
\* response has a status outside 200..299, or its body is not a
\* WorkflowArtifactsResponse.
ListFailed(rec) ==
  /\ rec.listAnswer # None
  /\ \/ rec.listAnswer[1] = None
     \/ /\ rec.listAnswer[1] # None
        /\ \/ rec.listAnswer[1][1].status \notin 200..299
           \/ rec.listAnswer[1][1].body = None

\* C11: a transport failure, a status outside 2xx or a body of the wrong
\* shape of the artifact-list call ends the request in UpstreamQueryFailed
\* with 500; the request selects no artifact and sends no download, whatever
\* the body of a non-2xx answer holds.
C11_ListFailureIsUpstreamError ==
  \A r \in Slots :
    LET rec == req[r] IN
    ListFailed(rec) =>
      /\ rec.pc = "done"
      /\ rec.terminal = << "UpstreamQueryFailed" >>
      /\ rec.resp = InternalServerError
      /\ ~Ran(rec, "select")
      /\ rec.downloadCalls = 0

\* The positions of the artifacts of a list that carry the name.
Named(artifacts, name) ==
  { i \in 1..Len(artifacts) : artifacts[i].name = name }

\* The earliest artifact of a list that carries the name.
FirstNamed(artifacts, name) ==
  artifacts[CHOOSE i \in Named(artifacts, name) :
              \A j \in Named(artifacts, name) : i <= j]

\* C12: the artifact a request selects and downloads is the first one, in
\* the order of the list the call returned, whose name equals
\* Config.artifact; with several artifacts of that name it is the earliest,
\* and the one download of the request is the download of that artifact.
C12_FirstMatchDownloaded ==
  \A r \in Slots :
    LET rec == req[r] IN
    /\ rec.artifact # None =>
         /\ Named(rec.artifacts, cfg.artifact) # { }
         /\ rec.artifact[1] = FirstNamed(rec.artifacts, cfg.artifact)
    /\ rec.downloadCalls > 0 => rec.artifact # None /\ rec.downloadCalls = 1
    /\ rec.download # None =>
         rec.download \in DownloadAnswers(FirstNamed(rec.artifacts, cfg.artifact))

\* A list with two artifacts of the configured name and different ids came
\* back, and the download of the request has been sent.
C12_Witness ==
  \E r \in Slots :
    LET rec == req[r] IN
    /\ rec.downloadCalls = 1
    /\ Cardinality(Named(rec.artifacts, cfg.artifact)) = 2
    /\ rec.artifacts[1].id # rec.artifacts[2].id
    /\ rec.artifact = Some(rec.artifacts[1])

\* -------------------------------------------------------------------- C13

\* Where the placeholder starts in a string.  No placeholder overlaps
\* another: "{" is its first character only.
Occurrences(s) ==
  { i \in 1..Len(s) : IsPrefix(Placeholder, SubSeq(s, i, Len(s))) }

\* How far the character at i of the template has moved in the resolved
\* string: every placeholder before it became the hash.
Shift(template, head_sha, i) ==
  Cardinality({ o \in Occurrences(template) : o < i })
    * (Len(head_sha) - Len(Placeholder))

\* `path` is `template` with every placeholder replaced by the hash and every
\* other character kept.
IsResolved(path, template, head_sha) ==
  /\ Len(path) = Len(template) + Shift(template, head_sha, Len(template) + 1)
  /\ \A o \in Occurrences(template) :
       LET at == o + Shift(template, head_sha, o)
       IN SubSeq(path, at, at + Len(head_sha) - 1) = head_sha
  /\ \A i \in 1..Len(template) :
       (\A o \in Occurrences(template) : i < o \/ i >= o + Len(Placeholder)) =>
         path[i + Shift(template, head_sha, i)] = template[i]

\* The returned calls of parse_artifact_value.
Parsed ==
  IF call # None /\ call[1].fn = "parse_artifact_value" /\ call[1].result # None
  THEN { call[1] } ELSE { }

\* What the handler does with the templates: the directory a request
\* extracts into is the output template resolved with its head_sha, and the
\* symlink a request created is at the symlink template resolved the same
\* way and points to that directory.
ResolvedInHandler ==
  \A r \in Slots :
    LET rec == req[r] IN
    /\ rec.extractCalls > 0 =>
         IsResolved(rec.output, cfg.output, rec.payload[1].head_sha)
    /\ (rec.symlinkCalls > 0 /\ rec.terminal = << "Installed" >>) =>
         \E link \in Paths :
           /\ IsResolved(link, cfg.symlink[1], rec.payload[1].head_sha)
           /\ rec.links0[link] = None
           /\ links[link] = Some(rec.output)
           /\ \A other \in Paths \ { link } : links[other] = rec.links0[other]

\* C13 (as claimed): for every template and every head commit hash the
\* resolved path is the template with every placeholder replaced by the
\* hash and holds no placeholder any more; the symlink is at the symlink
\* template resolved the same way and points to the resolved output.
C13_ResolvedEverywhere ==
  /\ \A c \in Parsed :
       /\ IsResolved(c.result[1], c.args[1], c.args[2])
       /\ Occurrences(c.result[1]) = { }
  /\ ResolvedInHandler

\* A hash that is not empty and shares no character with the placeholder,
\* as the hex digits of a commit hash do.
IsHash(head_sha) ==
  /\ head_sha # << >>
  /\ \A i \in 1..Len(head_sha), k \in 1..Len(Placeholder) :
       head_sha[i] # Placeholder[k]

\* C13 (amended): for every template and every head commit hash the resolved
\* path is the template with every placeholder replaced by the hash; it
\* holds no placeholder when the hash is not empty and has no character of
\* the placeholder.  The symlink is at the symlink template resolved the
\* same way and points to the resolved output.
C13_ResolvedForHashes ==
  /\ \A c \in Parsed :
       /\ IsResolved(c.result[1], c.args[1], c.args[2])
       /\ IsHash(c.args[2]) => Occurrences(c.result[1]) = { }
  /\ ResolvedInHandler

\* A template with two placeholders has been resolved with a hash.
C13_Witness ==
  \E c \in Parsed :
    /\ Cardinality(Occurrences(c.args[1])) = 2
    /\ IsHash(c.args[2])

\* -------------------------------------------------------------------- C14

\* The calls of verify_github_signature that have returned.
Verified ==
  IF call # None /\ call[1].fn = "verify_github_signature"
       /\ call[1].result # None
  THEN { call[1] } ELSE { }

\* C14: verify_github_signature(payload, secret, signature) returns true
\* when the signature is the HMAC-SHA256 of the payload under the secret, as
\* it is in the crate's test, and false for any other bytes (a digest cut
\* short or extended, no bytes, another digest); called on a payload with a
\* byte changed and the signature of the original it returns false; every
\* call returns, and what it returns is a boolean.
C14_VerifyChecksHmac ==
  /\ \A c \in Verified :
       LET payload == c.args[1]
           secret == c.args[2]
           signature == c.args[3]
       IN /\ c.result[1] \in BOOLEAN
          /\ c.result[1] <=> signature = Finalize(secret, payload)
          /\ (payload = TestPayload /\ secret = TestSecret
                /\ signature = HexDecode(TestSignatureHex)[1]) => c.result[1]
          /\ \A original \in TestPayloads \ { payload } :
               signature = Finalize(secret, original) => ~c.result[1]
  /\ (call # None /\ call[1].fn = "verify_github_signature"
        /\ call[1].result = None) => ENABLED CallVerify

\* The payload of the crate's test with one byte changed was verified
\* against the signature of the test, and the answer was false.
C14_Witness ==
  \E c \in Verified :
    /\ c.args[1] = Tampered(TestPayload, 7)
    /\ c.args[2] = TestSecret
    /\ c.args[3] = HexDecode(TestSignatureHex)[1]
    /\ c.result = Some(FALSE)

\* ------------------------------------------------------------ C15 .. C17

\* C15: a request that has reached the symlink step and called fs::symlink
\* has a resolved symlink path that differs from its resolved output path.
C15_SymlinkPathDiffers ==
  \A r \in Slots :
    req[r].symlinkCalls > 0 => LinkPath(req[r]) # req[r].output

\* The extraction of the request returned Ok: it was started once, every
\* entry of the archive was written whole, none of them left the directory.
ExtractedAll(rec) ==
  LET entries == rec.download[1].bytes.entries IN
  /\ rec.extractCalls = 1
  /\ rec.next = Len(entries) + 1
  /\ \A i \in 1..Len(entries) : entries[i].enclosed
  /\ rec.pc \in { "symlink", "done" }

\* C16: fs::symlink is called only by a request whose own extraction returned
\* Ok before, and a request that has been answered 204 in Installed under a
\* configuration with a symlink template made its symlink itself: nothing
\* was at its symlink path when it came, it called fs::symlink once, and as
\* it responds the symlink is there and points to its resolved output.
C16_InstalledAfterOwnSymlink ==
  \A r \in Slots :
    LET rec == req[r] IN
    /\ rec.symlinkCalls > 0 =>
         /\ ExtractedAll(rec)
         /\ \E i, j \in 1..Len(rec.stages) :
              i < j /\ rec.stages[i] = "extract" /\ rec.stages[j] = "symlink"
    /\ (rec.terminal = << "Installed" >> /\ cfg.symlink # None) =>
         /\ rec.resp = NoContent
         /\ rec.symlinkCalls = 1
         /\ rec.links0[LinkPath(rec)] = None
         /\ links[LinkPath(rec)] = Some(rec.output)

\* A request has been answered 204 in Installed with the symlink it made.
C16_Witness ==
  \E r \in Slots :
    /\ req[r].terminal = << "Installed" >>
    /\ cfg.symlink # None
    /\ links[LinkPath(req[r])] = Some(req[r].output)

\* The request ended in SymlinkFailed.
SymlinkStepFailed(rec) == rec.terminal = << "SymlinkFailed" >>

\* What a request that ended in SymlinkFailed leaves: the answer is 500, the
\* symlinks are the ones it found, and the directory it extracted into holds
\* every file of its archive, whole.
LeftInPlace(rec) ==
  /\ rec.resp = InternalServerError
  /\ links = rec.links0
  /\ dirs[Follow(rec.output)] # None
  /\ \A i \in 1..Len(rec.download[1].bytes.entries) :
       LET entry == rec.download[1].bytes.entries[i]
       IN dirs[Follow(rec.output)][1][entry.name]
            = Some([ data |-> entry.data, complete |-> TRUE ])

\* C17: no step removes or retargets a symlink that exists, removes a
\* directory or removes a file of one; and a request that ends in 500 at the
\* symlink step leaves the symlinks as it found them and its freshly
\* extracted output directory in place.
C17_SymlinkAndOutputKept ==
  [][ /\ \A p \in Paths :
           /\ links[p] # None => links'[p] = links[p]
           /\ dirs[p] # None =>
                /\ dirs'[p] # None
                /\ \A e \in EntryNames :
                     dirs[p][1][e] # None => dirs'[p][1][e] # None
      /\ \A r \in Slots :
           (SymlinkStepFailed(req[r]) => LeftInPlace(req[r]))' ]_vars

\* A request found a symlink at its symlink path, extracted elsewhere and
\* ended in SymlinkFailed.
C17_Witness ==
  \E r \in Slots :
    /\ SymlinkStepFailed(req[r])
    /\ req[r].links0[LinkPath(req[r])] # None
    /\ links[LinkPath(req[r])] # Some(req[r].output)
    /\ LeftInPlace(req[r])

\* --------------------------------------------------------------------- C18

\* Two requests that were in the handler at once (each arrived before the
\* other had written anything), passed every earlier stage, called
\* fs::symlink with the same symlink path and have both been answered.
BothAtSameLink(r, s) ==
  /\ r # s
  /\ req[r].dirs0 = req[s].dirs0 /\ req[r].links0 = req[s].links0
  /\ cfg.symlink # None
  /\ req[r].pc = "done" /\ req[s].pc = "done"
  /\ req[r].symlinkCalls = 1 /\ req[s].symlinkCalls = 1
  /\ LinkPath(req[r]) = LinkPath(req[s])

\* The request made the symlink and was answered 204.
Won(rec) ==
  /\ rec.terminal = << "Installed" >>
  /\ rec.resp = NoContent
  /\ links[LinkPath(rec)] = Some(rec.output)

\* fs::symlink failed for the request and it was answered 500, its files
\* extracted all the same.
Lost(rec) ==
  /\ rec.terminal = << "SymlinkFailed" >>
  /\ rec.resp = InternalServerError
  /\ ExtractedAll(rec)

\* C18: of two concurrent requests that pass every earlier stage and resolve
\* to the same symlink path, with no symlink there at the start, exactly one
\* is answered 204, having made the symlink, and the other is answered 500,
\* its symlink creation failed, though both extracted.
C18_OneWinsOneLoses ==
  \A r, s \in Slots :
    BothAtSameLink(r, s) =>
      \/ Won(req[r]) /\ Lost(req[s])
      \/ Won(req[s]) /\ Lost(req[r])

\* The same for symlink paths that are not the requests' output paths.
C18_OneWinsOneLosesApart ==
  \A r, s \in Slots :
    (BothAtSameLink(r, s) /\ LinkPath(req[r]) # req[r].output
                          /\ LinkPath(req[s]) # req[s].output) =>
      \/ Won(req[r]) /\ Lost(req[s])
      \/ Won(req[s]) /\ Lost(req[r])

\* Two requests are inside ZipArchive::extract at once.
C18_BothExtracting ==
  \E r, s \in Slots :
    /\ r # s
    /\ req[r].pc \in { "entry", "copy" } /\ req[r].next >= 1
    /\ req[s].pc \in { "entry", "copy" } /\ req[s].next >= 1

====
